---- MODULE Spec2Model ----
(***************************************************************************)
(* Model of ops/scripts/upload-to-vector-store.py: the loader, the         *)
(* document renderer, the per-record upload (transient file, files.create, *)
(* vector_stores.files.create, cleanup), the batch loop with its sleep,    *)
(* the final report and the process exit code.                             *)
(***************************************************************************)
EXTENDS Integers, Sequences, FiniteSets, TLC

VARIABLES
    api_key_set,      \* OPENAI_API_KEY is present in the environment
    vs_env,           \* OPENAI_VECTOR_STORE_ID: "unset", "" or an id
    input_exists,     \* vector-store-data-2025-10-10.jsonl exists
    input_lines,      \* lines of the input file
    pc,               \* position of the script
    exit_code,        \* process exit code once pc = "exited"
    fatal,            \* exception that reached __main__ ("none" if none)
    vector_store_id,  \* local vector_store_id
    file_checked,     \* input_file.exists() was evaluated
    file_opened,      \* the input file was opened
    lines_read,       \* number of lines the loader has consumed
    documents,        \* local documents
    success_count,
    error_count,
    i,                \* batch loop variable
    j,                \* index within the batch
    batch,
    doc,
    global_index,
    metadata,
    text_content,
    temp_filename,
    file,             \* id of the object files.create returned last
    e,                \* exception being handled by the except clause
    disk,             \* transient files that exist on disk
    files_created,    \* remote files created at the provider
    files_attached,   \* remote files attached to the vector store
    calls,            \* API calls issued for the record being processed
                      \* (empty while no record is being processed)
    attempted,        \* kinds of upload work attempted so far in the run
    schedule,         \* batch sizes in order, with 0 for each time.sleep(3)
    report,           \* what the final report printed
    raised            \* exceptions raised inside the try block so far

vars == <<api_key_set, vs_env, input_exists, input_lines, pc, exit_code, fatal,
          vector_store_id, file_checked, file_opened, lines_read, documents,
          success_count, error_count, i, j, batch, doc, global_index,
          metadata, text_content, temp_filename, file, e, disk, files_created,
          files_attached, calls, attempted, schedule, report, raised>>

(***************************************************************************)
(* Bounds of the model.                                                    *)
(***************************************************************************)
MaxLines == 11

(***************************************************************************)
(* Program constants.                                                      *)
(***************************************************************************)
batch_size == 5

(***************************************************************************)
(* Python / JSON values: a value carries the name of its Python type.      *)
(***************************************************************************)
JStr(s) == [t |-> "str", v |-> s]

JBool(b) == [t |-> "bool", v |-> b]

JInt(n) == [t |-> "int", v |-> n]

JList(q) == [t |-> "list", v |-> q]

JDict(m) == [t |-> "dict", v |-> m]

JNone == [t |-> "NoneType"]

Unbound == [t |-> "unbound"]

EmptyMap == <<>>

Digits == <<"0", "1", "2", "3", "4", "5", "6", "7", "8", "9">>

RECURSIVE IntStr(_)
IntStr(n) ==
    IF n < 10 THEN Digits[n + 1]
    ELSE IntStr(n \div 10) \o Digits[(n % 10) + 1]

\* str(x) as an f-string field formats it (lists do not occur as fields)
PyStr(x) ==
    CASE x.t = "str" -> x.v
      [] x.t = "bool" -> IF x.v THEN "True" ELSE "False"
      [] x.t = "int" -> IntStr(x.v)
      [] x.t = "NoneType" -> "None"
      [] OTHER -> "<" \o x.t \o ">"

\* truth value of x in a conditional expression
Truthy(x) ==
    CASE x.t = "str" -> x.v # ""
      [] x.t = "bool" -> x.v
      [] x.t = "int" -> x.v # 0
      [] x.t = "list" -> x.v # <<>>
      [] x.t = "dict" -> x.v # EmptyMap
      [] OTHER -> FALSE

\* x has a .get method
HasGet(x) == x.t = "dict"

\* d.get(k, default) for a dict d
Get(d, k, default) == IF k \in DOMAIN d.v THEN d.v[k] ELSE default

\* ', '.join(x) accepts x: a list whose items are all str (the inputs of
\* the model carry a list or null in the list-valued fields, never a str)
Joinable(x) == x.t = "list" /\ \A n \in 1..Len(x.v) : x.v[n].t = "str"

RECURSIVE JoinFrom(_, _)
JoinFrom(q, n) ==
    IF n > Len(q) THEN ""
    ELSE IF n = Len(q) THEN q[n].v
    ELSE q[n].v \o ", " \o JoinFrom(q, n + 1)

\* the join without its "or 'None'"
JoinOnly(x) == JoinFrom(x.v, 1)

\* ', '.join(x) or 'None'
JoinOrNone(x) ==
    LET s == JoinFrom(x.v, 1) IN IF s = "" THEN "None" ELSE s

(***************************************************************************)
(* Document renderer: the f-string of lines 56-75, as its lines.           *)
(***************************************************************************)
RenderText(d, m) ==
    << "CANCELLATION TICKET: " \o PyStr(Get(m, "ticketId", JStr("unknown"))),
       "Subject: " \o PyStr(Get(m, "subject", JStr("N/A"))),
       "Language: " \o PyStr(Get(m, "language", JStr("unknown"))),
       "Category: " \o (IF Truthy(Get(m, "is_cancellation", JNone))
                        THEN "Cancellation" ELSE "Other"),
       "Payment Issue: " \o (IF Truthy(Get(m, "has_payment_issue", JNone))
                             THEN "Yes" ELSE "No"),
       "Edge Case: " \o PyStr(Get(m, "edge_case", JStr("none"))),
       "Customer Concerns: "
           \o JoinOrNone(Get(m, "customer_concerns", JList(<<>>))),
       "",
       "CONVERSATION:",
       PyStr(Get(d, "text", JStr(""))),
       "",
       "METADATA:",
       "- Ticket ID: " \o PyStr(Get(m, "ticketId", JStr("unknown"))),
       "- Language: " \o PyStr(Get(m, "language", JStr("unknown"))),
       "- Has Payment Issue: "
           \o PyStr(Get(m, "has_payment_issue", JBool(FALSE))),
       "- Edge Case: " \o PyStr(Get(m, "edge_case", JStr("none"))),
       "- Customer Concerns: "
           \o JoinOrNone(Get(m, "customer_concerns", JList(<<>>))),
       "- Topic Keywords: "
           \o JoinOrNone(Get(m, "topic_keywords", JList(<<>>))),
       "- Conversation Summary: "
           \o PyStr(Get(m, "conversation_summary", JStr("None"))) >>

\* metadata = doc.get('metadata', {}) of line 55: the value bound to
\* metadata, or Unbound when doc.get itself raises
MetadataOf(d) ==
    IF HasGet(d) THEN Get(d, "metadata", JDict(EmptyMap)) ELSE Unbound

\* the exception lines 55-75 raise for doc d, "none" if they raise nothing
RenderRaises(d) ==
    LET m == MetadataOf(d) IN
    IF ~HasGet(d) THEN "AttributeError"
    ELSE IF ~HasGet(m) THEN "AttributeError"
    ELSE IF ~Joinable(Get(m, "customer_concerns", JList(<<>>)))
         \/ ~Joinable(Get(m, "topic_keywords", JList(<<>>)))
         THEN "TypeError"
    ELSE "none"

\* temp_filename of lines 78 and 106
TempName(m, gi) ==
    "temp_cancellation_" \o PyStr(Get(m, "ticketId", JInt(gi))) \o ".txt"

(***************************************************************************)
(* Inputs: the environment and the content of the input file.              *)
(***************************************************************************)
BlankLine == [kind |-> "blank"]

MalformedLine == [kind |-> "malformed"]

JsonLine(x) == [kind |-> "json", value |-> x]

\* a complete ticket record, the k-th of its file
TicketDoc(k) ==
    JDict([text |-> JStr("chat " \o IntStr(k)),
           metadata |-> JDict(
               [ticketId |-> JStr("T" \o IntStr(k)),
                subject |-> JStr("Cancel my plan"),
                language |-> JStr("en"),
                is_cancellation |-> JBool(TRUE),
                has_payment_issue |-> JBool(TRUE),
                edge_case |-> JStr("moving"),
                customer_concerns |-> JList(<<JStr("refund"), JStr("delay")>>),
                topic_keywords |-> JList(<<JStr("billing")>>),
                conversation_summary |-> JStr("wants out")])])

\* {"text": "hi"}
NoMetaDoc == JDict([text |-> JStr("hi")])

\* {"text": "hi", "metadata": "n/a"}
BadMetaDoc == JDict([text |-> JStr("hi"), metadata |-> JStr("n/a")])

\* ["hi"]
NonObjDoc == JList(<<JStr("hi")>>)

\* {"text": "hi", "metadata": {"ticketId": "L1", "customer_concerns": null}}
BadListDoc ==
    JDict([text |-> JStr("hi"),
           metadata |-> JDict([ticketId |-> JStr("L1"),
                               customer_concerns |-> JNone])])

SpecialLines ==
    {BlankLine, MalformedLine, JsonLine(NoMetaDoc), JsonLine(BadMetaDoc),
     JsonLine(NonObjDoc), JsonLine(BadListDoc)}

\* a file of n lines: ticket records, but for line sp (if any)
InputFile(n, sp, special) ==
    [k \in 1..n |-> IF k = sp THEN special ELSE JsonLine(TicketDoc(k))]

\* the places of the one line that is not a ticket record: none (0), the
\* first line, the second, the last
SpecialPlaces(n) == {0} \cup ({1, 2, n} \cap (1..n))

InputFiles ==
    UNION {{InputFile(n, sp, special) :
               sp \in SpecialPlaces(n), special \in SpecialLines} :
           n \in 0..MaxLines}

NoExc == [exc |-> "none", at |-> "none"]

\* the script's own state when the process starts
InitScript ==
    /\ pc = "client"
    /\ exit_code = -1
    /\ fatal = "none"
    /\ vector_store_id = Unbound
    /\ file_checked = FALSE
    /\ file_opened = FALSE
    /\ lines_read = 0
    /\ documents = <<>>
    /\ success_count = 0
    /\ error_count = 0
    /\ i = 0
    /\ j = 0
    /\ batch = <<>>
    /\ doc = Unbound
    /\ global_index = 0
    /\ metadata = Unbound
    /\ text_content = <<>>
    /\ temp_filename = ""
    /\ file = 0
    /\ e = NoExc
    /\ disk = {}
    /\ files_created = 0
    /\ files_attached = 0
    /\ calls = <<>>
    /\ attempted = {}
    /\ schedule = <<>>
    /\ report = <<>>
    /\ raised = 0

Init ==
    /\ api_key_set \in BOOLEAN
    /\ vs_env \in {"unset", "", "vs_123"}
    /\ input_exists \in BOOLEAN
    /\ input_lines \in (IF input_exists THEN InputFiles ELSE {<<>>})
    /\ InitScript

(***************************************************************************)
(* Start-up and loader.                                                    *)
(***************************************************************************)
\* an exception that leaves upload_to_vector_store: caught at line 129,
\* printed, exit(1)
Fatal(exc) ==
    /\ pc' = "exited"
    /\ exit_code' = 1
    /\ fatal' = exc

\* os.getenv('OPENAI_VECTOR_STORE_ID')
GetEnvVectorStoreId ==
    IF vs_env = "unset" THEN JNone ELSE JStr(vs_env)

\* the test taken as "is None": the empty string passes
VectorStoreIdIsNone(v) == v.t = "NoneType"

\* if not vector_store_id
VectorStoreIdMissing(v) == ~Truthy(v)

\* a line that does not parse is skipped like a blank one
SkipLineOrMalformed(line) == line.kind \in {"blank", "malformed"}

\* if line.strip() is false: the line is skipped
SkipLine(line) == line.kind = "blank"

\* json.loads(line) raises JSONDecodeError
ParseRaises(line) == line.kind = "malformed"

\* json.loads(line)
Parse(line) == line.value

\* line 20: the client refuses to be built without an API key
CreateClient ==
    /\ pc = "client"
    /\ IF api_key_set
       THEN pc' = "getenv" /\ UNCHANGED <<exit_code, fatal>>
       ELSE Fatal("OpenAIError")
    /\ UNCHANGED <<api_key_set, vs_env, input_exists, input_lines,
                   vector_store_id, file_checked, file_opened, lines_read,
                   documents, success_count, error_count, i, j, batch, doc,
                   global_index, metadata, text_content, temp_filename, file,
                   e, disk, files_created, files_attached, calls, attempted,
                   schedule, report, raised>>

\* lines 21-24
CheckVectorStoreId ==
    /\ pc = "getenv"
    /\ vector_store_id' = GetEnvVectorStoreId
    /\ IF VectorStoreIdMissing(vector_store_id')
       THEN Fatal("ValueError")
       ELSE pc' = "input" /\ UNCHANGED <<exit_code, fatal>>
    /\ UNCHANGED <<api_key_set, vs_env, input_exists, input_lines,
                   file_checked, file_opened, lines_read,
                   documents, success_count, error_count, i, j, batch, doc,
                   global_index, metadata, text_content, temp_filename, file,
                   e, disk, files_created, files_attached, calls, attempted,
                   schedule, report, raised>>

\* lines 27-32: the existence check, then open and documents = []
OpenInput ==
    /\ pc = "input"
    /\ file_checked' = TRUE
    /\ IF input_exists
       THEN /\ file_opened' = TRUE
            /\ documents' = <<>>
            /\ pc' = "read"
            /\ UNCHANGED <<exit_code, fatal>>
       ELSE /\ Fatal("FileNotFoundError")
            /\ UNCHANGED <<file_opened, documents>>
    /\ UNCHANGED <<api_key_set, vs_env, input_exists, input_lines,
                   vector_store_id, lines_read,
                   success_count, error_count, i, j, batch, doc,
                   global_index, metadata, text_content, temp_filename, file,
                   e, disk, files_created, files_attached, calls, attempted,
                   schedule, report, raised>>

\* lines 33-35: one turn of "for line in f"
ReadLine ==
    /\ pc = "read"
    /\ lines_read < Len(input_lines)
    /\ lines_read' = lines_read + 1
    /\ LET line == input_lines[lines_read + 1] IN
       IF SkipLine(line)
       THEN UNCHANGED <<documents, pc, exit_code, fatal>>
       ELSE IF ParseRaises(line)
       THEN Fatal("JSONDecodeError") /\ UNCHANGED documents
       ELSE /\ documents' = Append(documents, Parse(line))
            /\ UNCHANGED <<pc, exit_code, fatal>>
    /\ UNCHANGED <<api_key_set, vs_env, input_exists, input_lines,
                   vector_store_id, file_checked, file_opened,
                   success_count, error_count, i, j, batch, doc,
                   global_index, metadata, text_content, temp_filename, file,
                   e, disk, files_created, files_attached, calls, attempted,
                   schedule, report, raised>>

\* lines 37-44: end of file, the counters, the batch loop starts at i = 0
EndOfInput ==
    /\ pc = "read"
    /\ lines_read = Len(input_lines)
    /\ success_count' = 0
    /\ error_count' = 0
    /\ i' = 0
    /\ pc' = "batch"
    /\ UNCHANGED <<api_key_set, vs_env, input_exists, input_lines, exit_code,
                   fatal, vector_store_id, file_checked, file_opened,
                   lines_read, documents, j, batch, doc,
                   global_index, metadata, text_content, temp_filename, file,
                   e, disk, files_created, files_attached, calls, attempted,
                   schedule, report, raised>>

(***************************************************************************)
(* Batch loop and per-record upload.                                       *)
(***************************************************************************)
envVars == <<api_key_set, vs_env, input_exists, input_lines>>

loaderVars ==
    <<vector_store_id, file_checked, file_opened, lines_read, documents>>

Min(a, b) == IF a < b THEN a ELSE b

\* documents[i:i + batch_size]
BatchOf(docs, k) == SubSeq(docs, k + 1, Min(k + batch_size, Len(docs)))

\* the comparison taken as <=: a sleep after a full final batch
NeedsSleepInclusive(k, n) == k + batch_size <= n

\* if i + batch_size < len(documents)
NeedsSleep(k, n) == k + batch_size < n

\* the except clause can print its message: metadata.get exists
HandlerCanPrint(m) == HasGet(m)

\* the except clause leaves the transient file alone
HandlerRemovesNever(name, d) == FALSE

\* if os.path.exists(temp_filename)
HandlerRemoves(name, d) == name \in d

\* the except clause does not count
CountErrorForgotten(n) == n

\* error_count += 1
CountError(n) == n + 1

\* success_count += 1
CountSuccess(n) == n + 1

\* file_id=file.id
AttachFileId(f) == f

\* a failed files.create is passed over and the attach call is made anyway
RaisedInTrySwallowCreate(at) == IF at = "create" THEN "attach" ELSE "except"

\* a failed attach call is passed over and the record goes on to count
RaisedInTrySwallowAttach(at) == IF at = "attach" THEN "remove" ELSE "except"

\* where control goes when the statement at place `at` of the try block
\* raises: the except clause of line 101
RaisedInTry(at) == "except"

\* lines 44-49: one turn of "for i in range(0, len(documents), batch_size)"
BatchStart ==
    /\ pc = "batch"
    /\ IF i < Len(documents)
       THEN /\ batch' = BatchOf(documents, i)
            /\ schedule' = Append(schedule, Len(batch'))
            /\ j' = 0
            /\ pc' = "item"
       ELSE /\ pc' = "report"
            /\ UNCHANGED <<batch, schedule, j>>
    /\ UNCHANGED <<envVars, loaderVars, exit_code, fatal, success_count,
                   error_count, i, doc, global_index, metadata,
                   text_content, temp_filename, file, e, disk,
                   files_created, files_attached, calls, attempted, report,
                   raised>>

\* lines 51-52: one turn of "for j, doc in enumerate(batch)"; here j counts
\* the records of the batch already taken
ItemStart ==
    /\ pc = "item"
    /\ IF j < Len(batch)
       THEN /\ doc' = batch[j + 1]
            /\ global_index' = i + j + 1
            /\ pc' = "render"
       ELSE /\ pc' = "after_batch"
            /\ UNCHANGED <<doc, global_index>>
    /\ UNCHANGED <<envVars, loaderVars, exit_code, fatal, success_count,
                   error_count, i, j, batch, metadata, text_content,
                   temp_filename, file, e, disk, files_created,
                   files_attached, calls, attempted, schedule, report,
                   raised>>

\* lines 55-75: metadata and text_content; metadata keeps its earlier value
\* (or stays unbound) when doc.get itself raises
Render ==
    /\ pc = "render"
    /\ metadata' = IF HasGet(doc) THEN MetadataOf(doc) ELSE metadata
    /\ IF RenderRaises(doc) = "none"
       THEN /\ text_content' = RenderText(doc, metadata')
            /\ pc' = "write"
            /\ UNCHANGED <<e, raised>>
       ELSE /\ e' = [exc |-> RenderRaises(doc), at |-> "render"]
            /\ raised' = raised + 1
            /\ pc' = RaisedInTry("render")
            /\ UNCHANGED text_content
    /\ UNCHANGED <<envVars, loaderVars, exit_code, fatal, success_count,
                   error_count, i, j, batch, doc, global_index,
                   temp_filename, file, disk, files_created, files_attached,
                   calls, attempted, schedule, report>>

\* lines 78-80: the transient file is written; open may fail (no file), or
\* the write may fail after the file was created
WriteTemp ==
    /\ pc = "write"
    /\ temp_filename' = TempName(metadata, global_index)
    /\ attempted' = attempted \cup {"write"}
    /\ \E outcome \in {"ok", "open_fails", "write_fails"} :
          /\ disk' = IF outcome = "open_fails" THEN disk
                     ELSE disk \cup {temp_filename'}
          /\ IF outcome = "ok"
             THEN pc' = "create" /\ UNCHANGED <<e, raised>>
             ELSE /\ e' = [exc |-> "OSError", at |-> "write"]
                  /\ raised' = raised + 1
                  /\ pc' = RaisedInTry("write")
    /\ UNCHANGED <<envVars, loaderVars, exit_code, fatal, success_count,
                   error_count, i, j, batch, doc, global_index, metadata,
                   text_content, file, files_created, files_attached, calls,
                   schedule, report>>

\* lines 83-87: client.files.create returns a new file object, or raises
CreateFile ==
    /\ pc = "create"
    /\ attempted' = attempted \cup {"files.create"}
    /\ \E ok \in BOOLEAN :
          IF ok
          THEN /\ files_created' = files_created + 1
               /\ file' = files_created + 1
               /\ calls' = Append(calls, [op |-> "files.create", ok |-> TRUE,
                                          file_id |-> file'])
               /\ pc' = "attach"
               /\ UNCHANGED <<e, raised>>
          ELSE /\ calls' = Append(calls, [op |-> "files.create", ok |-> FALSE,
                                          file_id |-> 0])
               /\ e' = [exc |-> "APIError", at |-> "create"]
               /\ raised' = raised + 1
               /\ pc' = RaisedInTry("create")
               /\ UNCHANGED <<files_created, file>>
    /\ UNCHANGED <<envVars, loaderVars, exit_code, fatal, success_count,
                   error_count, i, j, batch, doc, global_index, metadata,
                   text_content, temp_filename, disk, files_attached,
                   schedule, report>>

\* lines 90-93: client.vector_stores.files.create attaches file.id, or raises
Attach ==
    /\ pc = "attach"
    /\ attempted' = attempted \cup {"vector_stores.files.create"}
    /\ \E ok \in BOOLEAN :
          /\ calls' = Append(calls, [op |-> "vector_stores.files.create",
                                     ok |-> ok,
                                     file_id |-> AttachFileId(file)])
          /\ IF ok
             THEN /\ files_attached' = files_attached + 1
                  /\ pc' = "remove"
                  /\ UNCHANGED <<e, raised>>
             ELSE /\ e' = [exc |-> "APIError", at |-> "attach"]
                  /\ raised' = raised + 1
                  /\ pc' = RaisedInTry("attach")
                  /\ UNCHANGED files_attached
    /\ UNCHANGED <<envVars, loaderVars, exit_code, fatal, success_count,
                   error_count, i, j, batch, doc, global_index, metadata,
                   text_content, temp_filename, file, disk, files_created,
                   schedule, report>>

\* lines 96-99: os.remove, then the record counts as a success
RemoveTemp ==
    /\ pc = "remove"
    /\ \E ok \in BOOLEAN :
          IF ok
          THEN /\ disk' = disk \ {temp_filename}
               /\ success_count' = CountSuccess(success_count)
               /\ j' = j + 1
               /\ calls' = <<>>
               /\ pc' = "item"
               /\ UNCHANGED <<e, raised>>
          ELSE /\ e' = [exc |-> "OSError", at |-> "remove"]
               /\ raised' = raised + 1
               /\ pc' = RaisedInTry("remove")
               /\ UNCHANGED <<disk, success_count, j, calls>>
    /\ UNCHANGED <<envVars, loaderVars, exit_code, fatal, error_count, i,
                   batch, doc, global_index, metadata, text_content,
                   temp_filename, file, files_created, files_attached,
                   attempted, schedule, report>>

\* lines 101-108: the except clause. Its message reads metadata.get, which
\* raises when metadata is unbound or has no get; then error_count, then
\* the transient file is removed if it exists, and os.remove may raise
Handler ==
    /\ pc = "except"
    /\ IF metadata = Unbound
       THEN /\ Fatal("UnboundLocalError")
            /\ UNCHANGED <<error_count, temp_filename, disk, j, e, calls>>
       ELSE IF ~HandlerCanPrint(metadata)
       THEN /\ Fatal("AttributeError")
            /\ UNCHANGED <<error_count, temp_filename, disk, j, e, calls>>
       ELSE /\ error_count' = CountError(error_count)
            /\ temp_filename' = TempName(metadata, global_index)
            /\ IF HandlerRemoves(temp_filename', disk)
               THEN \E ok \in BOOLEAN :
                       IF ok
                       THEN /\ disk' = disk \ {temp_filename'}
                            /\ j' = j + 1
                            /\ pc' = "item"
                            /\ e' = NoExc
                            /\ calls' = <<>>
                            /\ UNCHANGED <<exit_code, fatal>>
                       ELSE /\ Fatal("OSError")
                            /\ UNCHANGED <<disk, j, e, calls>>
               ELSE /\ j' = j + 1
                    /\ pc' = "item"
                    /\ e' = NoExc
                    /\ calls' = <<>>
                    /\ UNCHANGED <<disk, exit_code, fatal>>
    /\ UNCHANGED <<envVars, loaderVars, success_count, i, batch, doc,
                   global_index, metadata, text_content, file, files_created,
                   files_attached, attempted, schedule, report, raised>>

\* lines 110-113, and the step of the range() of line 44
AfterBatch ==
    /\ pc = "after_batch"
    /\ schedule' = IF NeedsSleep(i, Len(documents))
                   THEN Append(schedule, 0) ELSE schedule
    /\ i' = i + batch_size
    /\ pc' = "batch"
    /\ UNCHANGED <<envVars, loaderVars, exit_code, fatal, success_count,
                   error_count, j, batch, doc, global_index, metadata,
                   text_content, temp_filename, file, e, disk, files_created,
                   files_attached, calls, attempted, report, raised>>

\* f"{(success_count / len(documents) * 100):.1f}" in tenths of a percent
\* (no n below 32 gives a tie at the rounded digit)
RateTenths(s, n) == (2000 * s + n) \div (2 * n)

\* lines 115-124: total, successes and errors are printed, then the rate,
\* whose division raises ZeroDivisionError for an empty list; a run that
\* returns from upload_to_vector_store ends the process with code 0
Report ==
    /\ pc = "report"
    /\ LET n == Len(documents) IN
       IF n = 0
       THEN /\ report' = <<n, success_count, error_count>>
            /\ Fatal("ZeroDivisionError")
       ELSE /\ report' = <<n, success_count, error_count,
                           RateTenths(success_count, n)>>
            /\ pc' = "exited"
            /\ exit_code' = 0
            /\ UNCHANGED fatal
    /\ UNCHANGED <<envVars, loaderVars, success_count, error_count, i, j,
                   batch, doc, global_index, metadata, text_content,
                   temp_filename, file, e, disk, files_created,
                   files_attached, calls, attempted, schedule, raised>>

Next ==
    \/ CreateClient
    \/ CheckVectorStoreId
    \/ OpenInput
    \/ ReadLine
    \/ EndOfInput
    \/ BatchStart
    \/ ItemStart
    \/ Render
    \/ WriteTemp
    \/ CreateFile
    \/ Attach
    \/ RemoveTemp
    \/ Handler
    \/ AfterBatch
    \/ Report

Spec == Init /\ [][Next]_vars

(***************************************************************************)
(* Properties.                                                             *)
(***************************************************************************)
N == Len(documents)

\* the loop is between two records, or past the last one
MovedOn ==
    \/ pc \in {"item", "after_batch", "batch", "report"}
    \/ pc = "exited" /\ report # <<>>

\* C1: once the processing of a record has completed, whatever its outcome,
\* and the loop has moved on to the next record or to the final report, no
\* transient file exists on disk; while a record is being processed the
\* only transient file that can exist is that record's own.
C1_TransientFileRemoved ==
    /\ MovedOn => disk = {}
    /\ pc \in {"render", "write"} => disk = {}
    /\ pc \in {"create", "attach", "remove"} => disk \subseteq {temp_filename}

\* a record whose transient file was written failed at files.create, was
\* handled, and the loop has moved on
C1_Witness ==
    /\ pc = "item"
    /\ j = 1
    /\ raised = 1
    /\ error_count = 1
    /\ "files.create" \in attempted
    /\ files_created = 0
    /\ disk = {}

\* C3: the final report over N records of which k raised shows N - k
\* successes and k errors, and every one of the N records was taken up.
C3_ReportCounts ==
    report # <<>> =>
        /\ report[1] = N
        /\ report[2] = N - raised
        /\ report[3] = raised
        /\ report[2] + report[3] = N
        /\ global_index = N

\* three records, the first of which failed: 2 successes, 1 error, 66.7 %
C3_Witness ==
    /\ pc = "exited"
    /\ report = <<3, 2, 1, 667>>
    /\ files_created = 2

RECURSIVE ExpectedSchedule(_)
ExpectedSchedule(n) ==
    IF n = 0 THEN <<>>
    ELSE IF n <= 5 THEN <<n>>
    ELSE <<5, 0>> \o ExpectedSchedule(n - 5)

IsPrefix(p, q) == Len(p) <= Len(q) /\ SubSeq(q, 1, Len(p)) = p

RECURSIVE SumSeq(_)
SumSeq(q) == IF q = <<>> THEN 0 ELSE q[1] + SumSeq(Tail(q))

Sleeps(q) == Cardinality({k \in 1..Len(q) : q[k] = 0})

Batches(q) == Cardinality({k \in 1..Len(q) : q[k] # 0})

\* C4: N records are processed in ceil(N/5) batches in input order, each of
\* 5 records but possibly the last; there is exactly one sleep between two
\* consecutive batches, after the last record of the earlier one and before
\* the first record of the later one, and none after the final batch.
C4_BatchesAndSleeps ==
    /\ pc \notin {"client", "getenv", "input", "read"} =>
          IsPrefix(schedule, ExpectedSchedule(N))
    /\ (schedule # <<>> /\ schedule[Len(schedule)] = 0) =>
          /\ global_index = SumSeq(schedule)
          /\ success_count + error_count = SumSeq(schedule)
    /\ (schedule # <<>> /\ schedule[Len(schedule)] # 0) =>
          /\ global_index >= SumSeq(schedule) - schedule[Len(schedule)]
          /\ global_index <= SumSeq(schedule)
    /\ MovedOn /\ pc \in {"report", "exited"} =>
          /\ schedule = ExpectedSchedule(N)
          /\ Batches(schedule) = (N + 4) \div 5
          /\ Sleeps(schedule) = IF N = 0 THEN 0 ELSE ((N + 4) \div 5) - 1

\* eleven records: batches of 5, 5 and 1 with a sleep between them
C4_Witness ==
    /\ pc = "report"
    /\ N = 11
    /\ schedule = <<5, 0, 5, 0, 1>>

NoUploadWork ==
    /\ attempted = {}
    /\ disk = {}
    /\ calls = <<>>
    /\ files_created = 0
    /\ files_attached = 0
    /\ global_index = 0

\* C6: with OPENAI_VECTOR_STORE_ID unset or empty the run ends in a fatal
\* error before the input file is checked for existence, opened or read,
\* and before any transient file is written or any API call is issued.
C6_FailsFastWithoutVectorStoreId ==
    vs_env \in {"unset", ""} =>
        /\ pc \in {"client", "getenv", "exited"}
        /\ ~file_checked
        /\ ~file_opened
        /\ lines_read = 0
        /\ NoUploadWork
        /\ pc = "exited" => exit_code = 1 /\ fatal \in {"OpenAIError", "ValueError"}

\* the variable is set to the empty string; the input file is there
C6_Witness ==
    /\ vs_env = ""
    /\ api_key_set
    /\ input_exists
    /\ Len(input_lines) > 0
    /\ pc = "exited"
    /\ fatal = "ValueError"

HasMalformedLine ==
    \E k \in 1..Len(input_lines) : input_lines[k].kind = "malformed"

\* C7: when the input file does not exist, or any non-blank line of it
\* fails to parse, wherever it is, the run ends in a fatal error with no
\* file-create call, no attach call and no transient file written.
C7_NoUploadUnlessLoaded ==
    (~input_exists \/ HasMalformedLine) =>
        /\ NoUploadWork
        /\ pc \in {"client", "getenv", "input", "read", "exited"}
        /\ pc = "exited" => exit_code = 1
        /\ (pc = "exited" /\ api_key_set /\ vs_env = "vs_123") =>
              fatal = IF input_exists THEN "JSONDecodeError"
                      ELSE "FileNotFoundError"

\* the malformed line is the last one, after valid lines that were parsed
C7_Witness ==
    /\ pc = "exited"
    /\ fatal = "JSONDecodeError"
    /\ Len(documents) >= 2
    /\ lines_read = Len(input_lines)

\* C2 (as claimed): an exception raised while a record is rendered, its
\* transient file written, or either API call made, is counted as exactly
\* one error and the loop goes on to the next record, whatever the shape of
\* the record (the removal of the transient file not failing).
C2_EveryExceptionIsCaught ==
    [][(pc = "except" /\ e.at \in {"render", "write", "create", "attach"}
            /\ fatal' # "OSError")
          => (error_count' = error_count + 1 /\ pc' = "item")]_vars

\* C5 (as claimed): with the environment set, the input file present and
\* every non-blank line parsing, the process exits with code 0, for every
\* number of records; and it exits with code 1 only on a missing
\* environment variable, a missing input file or a parse error.
C5_ExitCodeZeroOnCompletion ==
    pc = "exited" =>
        /\ (api_key_set /\ vs_env = "vs_123" /\ input_exists
               /\ ~HasMalformedLine) => exit_code = 0
        /\ exit_code = 1 =>
              fatal \in {"OpenAIError", "ValueError", "FileNotFoundError",
                         "JSONDecodeError"}

CreateOk(id) == [op |-> "files.create", ok |-> TRUE, file_id |-> id]

\* C9: a record gets at most one file-create call and at most one attach
\* call; records are taken up one after the other in input order, each
\* once; the attach call of a record is issued only after the file-create
\* call of that same record returned, and with the id it returned; after a
\* failed file-create no attach call is issued for the record.
C9_OneCallEachInOrder ==
    [][/\ (calls' # calls /\ calls' # <<>>) =>
             /\ Len(calls') = Len(calls) + 1
             /\ global_index' = global_index
             /\ LET c == calls'[Len(calls')] IN
                IF c.op = "files.create"
                THEN calls = <<>>
                ELSE /\ c.op = "vector_stores.files.create"
                     /\ calls = <<CreateOk(c.file_id)>>
                     /\ c.file_id = files_created
       /\ files_created' # files_created =>
             /\ files_created' = files_created + 1
             /\ calls' = <<CreateOk(files_created')>>
       /\ files_attached' # files_attached =>
             /\ files_attached' = files_attached + 1
             /\ Len(calls') = 2
             /\ calls'[2].ok
       /\ global_index' # global_index =>
             /\ global_index' = global_index + 1
             /\ doc' = documents[global_index']
             /\ calls = <<>>
       /\ doc' # doc => global_index' # global_index
      ]_vars

\* the second record's file was created and then attached under its id
C9_Witness ==
    /\ global_index = 2
    /\ Len(calls) = 2
    /\ calls[1] = CreateOk(files_created)
    /\ calls[2].ok
    /\ calls[2].file_id = calls[1].file_id
    /\ files_attached = 1

\* C10: success_count <= files attached <= remote files created; a record
\* counts as a success only after its file-create call, its attach call and
\* the removal of its transient file all succeeded; nothing created
\* remotely is rolled back, so a record whose create succeeded and whose
\* attach or removal failed counts as an error while its remote file stays.
C10_SuccessAttachedCreated ==
    [][/\ success_count' <= files_attached'
       /\ files_attached' <= files_created'
       /\ files_created' >= files_created
       /\ files_attached' >= files_attached
       /\ success_count' # success_count =>
             /\ success_count' = success_count + 1
             /\ Len(calls) = 2 /\ calls[1].ok /\ calls[2].ok
             /\ temp_filename \notin disk'
             /\ error_count' = error_count
       /\ (pc = "except" /\ e.at \in {"attach", "remove"} /\ pc' = "item") =>
             /\ error_count' = error_count + 1
             /\ success_count' = success_count
             /\ files_created' = files_created
      ]_vars

\* created but not attached, and attached but not counted
C10_Witness ==
    /\ pc = "item"
    /\ files_created = 3
    /\ files_attached = 2
    /\ success_count = 1
    /\ error_count = 2

(***************************************************************************)
(* The renderer on its own: runs over a one-record file, the record drawn  *)
(* from every combination of present and missing fields, up to the end of  *)
(* lines 55-75.                                                            *)
(***************************************************************************)
Absent == [t |-> "absent"]

FieldChoices ==
    [ticketId : {Absent, JStr("T7")},
     subject : {Absent, JStr("Refund")},
     language : {Absent, JStr("no")},
     is_cancellation : {Absent, JBool(TRUE), JBool(FALSE)},
     has_payment_issue : {Absent, JBool(TRUE), JBool(FALSE)},
     edge_case : {Absent, JStr("moving")},
     customer_concerns :
         {Absent, JNone, JList(<<>>), JList(<<JStr("refund")>>),
          JList(<<JStr("refund"), JStr("delay")>>)},
     topic_keywords :
         {Absent, JList(<<>>), JList(<<JStr("a"), JStr("b")>>)},
     conversation_summary : {Absent, JStr("short")}]

\* the mapping that holds the fields of c that are present
Present(c) == [k \in {x \in DOMAIN c : c[x] # Absent} |-> c[k]]

RenderDocs ==
    {JDict(Present([text |-> t, metadata |-> m])) :
        t \in {Absent, JStr("hello")},
        m \in {Absent} \cup {JDict(Present(c)) : c \in FieldChoices}}

InitRender ==
    /\ api_key_set = TRUE
    /\ vs_env = "vs_123"
    /\ input_exists = TRUE
    /\ input_lines \in {<<JsonLine(d)>> : d \in RenderDocs}
    /\ InitScript

NextRender ==
    \/ CreateClient
    \/ CheckVectorStoreId
    \/ OpenInput
    \/ ReadLine
    \/ EndOfInput
    \/ BatchStart
    \/ ItemStart
    \/ Render

SpecRender == InitRender /\ [][NextRender]_vars

LacksMetadata(d) ==
    /\ d.t = "dict"
    /\ "metadata" \notin DOMAIN d.v \/ DOMAIN d.v.metadata.v = {}

TextOf(d) == IF "text" \in DOMAIN d.v THEN d.v.text.v ELSE ""

PlaceholderDocument(t) ==
    << "CANCELLATION TICKET: unknown",
       "Subject: N/A",
       "Language: unknown",
       "Category: Other",
       "Payment Issue: No",
       "Edge Case: none",
       "Customer Concerns: None",
       "",
       "CONVERSATION:",
       t,
       "",
       "METADATA:",
       "- Ticket ID: unknown",
       "- Language: unknown",
       "- Has Payment Issue: False",
       "- Edge Case: none",
       "- Customer Concerns: None",
       "- Topic Keywords: None",
       "- Conversation Summary: None" >>

Has(m, k, x) == k \in DOMAIN m.v /\ m.v[k] = x

\* C8: for a record without metadata, or with an empty metadata mapping,
\* rendering does not raise and the document carries the placeholders:
\* "unknown" for ticket id and language, "N/A" for the subject, "none" for
\* the edge case, "None" for concerns, keywords and summary, "No" for the
\* payment issue of the summary line and False in the metadata block; an
\* empty list renders as "None", a non-empty one as its items joined by
\* ", ".
C8_PlaceholdersAndJoin ==
    /\ (pc \in {"write", "except"} /\ LacksMetadata(doc)) =>
          /\ pc = "write"
          /\ text_content = PlaceholderDocument(TextOf(doc))
    /\ pc = "write" =>
          /\ Has(metadata, "customer_concerns", JList(<<>>)) =>
                /\ text_content[7] = "Customer Concerns: None"
                /\ text_content[17] = "- Customer Concerns: None"
          /\ Has(metadata, "customer_concerns",
                 JList(<<JStr("refund"), JStr("delay")>>)) =>
                /\ text_content[7] = "Customer Concerns: refund, delay"
                /\ text_content[17] = "- Customer Concerns: refund, delay"
          /\ Has(metadata, "customer_concerns", JList(<<JStr("refund")>>)) =>
                text_content[7] = "Customer Concerns: refund"
          /\ Has(metadata, "topic_keywords",
                 JList(<<JStr("a"), JStr("b")>>)) =>
                text_content[18] = "- Topic Keywords: a, b"
          /\ "ticketId" \notin DOMAIN metadata.v =>
                /\ text_content[1] = "CANCELLATION TICKET: unknown"
                /\ text_content[13] = "- Ticket ID: unknown"
          /\ "subject" \notin DOMAIN metadata.v =>
                text_content[2] = "Subject: N/A"
          /\ "has_payment_issue" \notin DOMAIN metadata.v =>
                /\ text_content[5] = "Payment Issue: No"
                /\ text_content[15] = "- Has Payment Issue: False"
          /\ "conversation_summary" \notin DOMAIN metadata.v =>
                text_content[19] = "- Conversation Summary: None"

\* a record with a text and no metadata field has been rendered
C8_Witness ==
    /\ pc = "write"
    /\ doc.t = "dict"
    /\ DOMAIN doc.v = {"text"}
    /\ text_content[1] = "CANCELLATION TICKET: unknown"
    /\ text_content[10] = "hello"

====
